---- MODULE Spec2Model ----
(***************************************************************************)
(* A model of the b-con ETL pipeline's two algorithmic cores:              *)
(*   - the report completion pollers (handlers/cm_handler.py,              *)
(*     handlers/dv360_handler.py), and                                     *)
(*   - the invoice file parser (handlers/invoice_handler.py).              *)
(***************************************************************************)
EXTENDS Integers, Sequences, FiniteSets, TLC

VARIABLES
  \* ---- report completion pollers ----
  wait,           \* which wait is running: "cm", "dv360", "timezone", "backoff" or "none"
  pc,             \* "polling", "returned", or the name of the exception raised
  now,            \* time.time(), in seconds
  start_time,     \* cm_handler.run_report_and_wait: start_time
  sleep,          \* cm_handler.run_report_and_wait: sleep
  query_ids,      \* dv360_handler: the submitted query ids
  svc,            \* the reporting service: query id -> last response to getquery
  statuses,       \* the statuses gathered by the last tick, in the order gathered
  order,          \* order[i]: the query id whose status is statuses[i]
  ret,            \* the value returned by the wait
  elapsed,        \* seconds between start of the wait and the last tick's status check
  slept,          \* seconds slept at the end of the last tick
  \* ---- invoice_handler.read ----
  lines,                \* the rows csv.reader has yielded so far
  read_pc,              \* "idle", "reading", "returned", or the exception raised
  state,                \* read: state
  invoice_header,       \* read: invoice_header
  invoice_entries,      \* read: invoice_entries
  invoice_number,       \* read: invoice_number
  invoice_entries_dict, \* read: invoice_entries_dict
  gst_from,             \* the number of the row at which state became READ_GST, or 0
  eof,                  \* whether `for row in reader` has come to the end of the file
  \* ---- bq_handler.upload_to_bq ----
  bq_pc,                \* "idle", "called", "returned", or the exception raised
  table_data,           \* upload_to_bq: table_data
  delete,               \* upload_to_bq: delete
  table,                \* the BigQuery table: whether it exists, its schema, its rows
  table_data_updated,   \* upload_to_bq: table_data_updated
  schema,               \* upload_to_bq: schema, the schema the load job is given
  \* ---- util._get_valid_start_date ----
  date_pc,              \* "idle", "called", "returned", or the exception raised
  cur_time,             \* datetime.datetime.now(): its year and month
  month,                \* _get_valid_start_date: month (0 for a month not given)
  year,                 \* _get_valid_start_date: year (0 for a year not given)
  start_date            \* the date returned

pollVars == <<wait, pc, now, start_time, sleep, query_ids, svc, statuses, order,
              ret, elapsed, slept>>

invVars == <<lines, read_pc, state, invoice_header, invoice_entries, invoice_number,
             invoice_entries_dict, gst_from, eof>>

bqVars == <<bq_pc, table_data, delete, table, table_data_updated, schema>>

dateVars == <<date_pc, cur_time, month, year, start_date>>

\* upload_to_bq is not running.
BqIdle ==
  /\ bq_pc = "idle" /\ table_data = <<>> /\ delete = FALSE
  /\ table = [exists |-> FALSE, schema |-> <<>>, rows |-> <<>>]
  /\ table_data_updated = <<>> /\ schema = <<>>

\* _get_valid_start_date is not running.
DateIdle ==
  /\ date_pc = "idle" /\ cur_time = [year |-> 0, month |-> 0]
  /\ month = 0 /\ year = 0
  /\ start_date = [year |-> 0, month |-> 0, day |-> 0]

VARIABLES
  \* ---- cm_handler.run_report_and_wait, after its loop ----
  report_pc,            \* "idle", "downloaded", "returned", or the exception raised
  report_data,          \* run_report_and_wait: report_data, the rows of the payload
  report_data_objects   \* run_report_and_wait: report_data_objects

VARIABLES
  \* ---- dv360_handler._get_reports_status / create_reports ----
  pool_pc,              \* "idle", "submitting", "collecting", "joining", "returned",
                        \* or the exception raised
  calls,                \* the number of calls to submit (query_ids, filters.items())
  max_workers,          \* ThreadPoolExecutor: max_workers
  wait_for,             \* wait_for: the state of every future submitted
  yielded,              \* as_completed: the futures it has yielded
  status_all,           \* status_all (queries in create_reports)
  pool_ret              \* the list returned

VARIABLES
  \* ---- main._process_invoices_drive / _process_invoices_sharepoint ----
  batch_pc,             \* "idle", "rows", "files", "entries", "cleanup",
                        \* "returned", or the exception raised
  invoice_storage,      \* config.params['invoice_storage']
  ignore_invoice_errors,    \* FLAGS.ignore_invoice_errors
  delete_downloaded_files,  \* config.params[...]['delete_downloaded_files']
  mark_files_completed,     \* config.params[...]['mark_drive_files_completed'] (or
                            \* 'mark_sharepoint_files_completed')
  drive_data,           \* the number of rows of drive_data (sharepoint_data)
  folder,               \* the number of the row of the for loop (0 before the loop)
  invoice_files,        \* the number of files of invoice_files
  outcomes,             \* what invoice_handler.read did for the files read so far
  all_headers,          \* all_headers
  all_entries,          \* all_entries
  error_invoices,       \* error_invoices
  uploads,              \* what the calls of upload_to_bq of this row did
  deleted,              \* delete_downloaded_files was called for this row
  marked,               \* mark_..._files_completed was called for this row
  logged                \* the files logged as 'Errors with the following invoice'

VARIABLES
  \* ---- main.process_cm / main.process_dv360 ----
  etl_pc,               \* "idle", "accounts", "sheets", "reports", "returned", or
                        \* the exception raised ("polling": the wait never ends)
  workflow,             \* "cm" (process_cm) or "dv360" (process_dv360)
  units,                \* the number of accounts (cm) or of sheets (dv360)
  unit,                 \* the number of the account or sheet of the for loop
  waits,                \* what the wait of every account or sheet so far did
  all_data,             \* all_data
  uploaded              \* the rows upload_to_bq has loaded

reportVars == <<report_pc, report_data, report_data_objects>>

etlVars == <<etl_pc, workflow, units, unit, waits, all_data, uploaded>>

\* Neither process_cm nor process_dv360 is running.
EtlIdle ==
  /\ etl_pc = "idle" /\ workflow = "none" /\ units = 0 /\ unit = 0
  /\ waits = <<>> /\ all_data = <<>> /\ uploaded = <<>>

batchVars == <<batch_pc, invoice_storage, ignore_invoice_errors,
               delete_downloaded_files, mark_files_completed, drive_data, folder,
               invoice_files, outcomes, all_headers, all_entries, error_invoices,
               uploads, deleted, marked, logged>>

\* process_invoices is not running.
BatchIdle ==
  /\ batch_pc = "idle" /\ invoice_storage = "none"
  /\ ignore_invoice_errors = FALSE /\ delete_downloaded_files = FALSE
  /\ mark_files_completed = FALSE /\ drive_data = 0 /\ folder = 0
  /\ invoice_files = 0 /\ outcomes = <<>> /\ all_headers = <<>>
  /\ all_entries = <<>> /\ error_invoices = <<>> /\ uploads = <<>>
  /\ deleted = FALSE /\ marked = FALSE /\ logged = <<>>

poolVars == <<pool_pc, calls, max_workers, wait_for, yielded, status_all, pool_ret>>

\* No batch of calls is under way.
PoolIdle ==
  /\ pool_pc = "idle" /\ calls = 0 /\ max_workers = 0 /\ wait_for = <<>>
  /\ yielded = {} /\ status_all = <<>> /\ pool_ret = <<>>

\* The rest of run_report_and_wait is not running.
ReportIdle ==
  report_pc = "idle" /\ report_data = <<>> /\ report_data_objects = <<>>

runVars == <<reportVars, poolVars, batchVars, etlVars>>

RunIdle == ReportIdle /\ PoolIdle /\ BatchIdle /\ EtlIdle

vars == <<pollVars, invVars, bqVars, dateVars, runVars>>

\* ------------------------------------------------------------------------
\* Bounds of the model.

\* At most this many queries are submitted to wait_for_reports_to_complete.
NumJobs == 2
\* The waits that have no deadline of their own are followed for this long.
MaxElapsed == 4200

\* ------------------------------------------------------------------------
\* Program constants.

MIN_RETRY_INTERVAL == 10
MAX_RETRY_INTERVAL == 600
MAX_RETRY_ELAPSED_TIME == 3600
\* socket.setdefaulttimeout(300): the longest a status request can take.
SOCKET_TIMEOUT == 300

Min2(a, b) == IF a <= b THEN a ELSE b

\* Python's None (for a locator: no report yet).
None == "None"

\* ------------------------------------------------------------------------
\* cm_handler._next_sleep_interval

\* previous_sleep_interval or MIN_RETRY_INTERVAL
min_interval(previous_sleep_interval) ==
  IF previous_sleep_interval # 0 THEN previous_sleep_interval ELSE MIN_RETRY_INTERVAL

\* previous_sleep_interval * 3 or MIN_RETRY_INTERVAL
max_interval(previous_sleep_interval) ==
  IF previous_sleep_interval * 3 # 0 THEN previous_sleep_interval * 3
  ELSE MIN_RETRY_INTERVAL

\* random.randint(a, b): every integer N with a <= N <= b.
randint(a, b) == a .. b

\* The draws of random.randint followed in the waits: both ends and the middle.
RandomDraws(a, b) == {a, (a + b) \div 2, b}

\* _next_sleep_interval, given the value r drawn by random.randint.
_next_sleep_interval_mut(previous_sleep_interval, r) == r

_next_sleep_interval(previous_sleep_interval, r) == Min2(MAX_RETRY_INTERVAL, r)

\* ------------------------------------------------------------------------
\* Strings are sequences of characters, so that lower, strip, replace, the
\* substring test and the regular expression are computed, not assumed.

\* The byte-order mark '﻿'.
BOM == "<U+FEFF>"

UpperCase == <<"A", "B", "C", "D", "E", "F", "G", "H", "I", "J", "K", "L", "M",
               "N", "O", "P", "Q", "R", "S", "T", "U", "V", "W", "X", "Y", "Z">>
LowerCase == <<"a", "b", "c", "d", "e", "f", "g", "h", "i", "j", "k", "l", "m",
               "n", "o", "p", "q", "r", "s", "t", "u", "v", "w", "x", "y", "z">>

\* str.lower
Lower(s) ==
  [i \in 1..Len(s) |->
     IF \E k \in 1..26 : UpperCase[k] = s[i]
       THEN LowerCase[CHOOSE k \in 1..26 : UpperCase[k] = s[i]]
       ELSE s[i]]

\* sub in s
Contains(sub, s) ==
  \E i \in 0..(Len(s) - Len(sub)) : SubSeq(s, i + 1, i + Len(sub)) = sub

\* str.replace(ch, '')
Remove(s, ch) == SelectSeq(s, LAMBDA c : c # ch)

Whitespace == {" ", "\t"}

\* str.strip
Strip(s) ==
  LET kept == {i \in 1..Len(s) : s[i] \notin Whitespace}
  IN IF kept = {} THEN <<>>
     ELSE SubSeq(s, CHOOSE i \in kept : \A j \in kept : i <= j,
                    CHOOSE i \in kept : \A j \in kept : j <= i)

\* re.search(r'\((.*)\)', s): whether there is a match (re.search returns None when
\* there is none) and its group 1.  The match starts at the first "(" that has a
\* ")" after it, and .* is greedy.
ReSearch(s) ==
  LET opens == {i \in 1..Len(s) : s[i] = "(" /\ \E j \in (i+1)..Len(s) : s[j] = ")"}
      closes == {j \in 1..Len(s) : s[j] = ")"}
  IN IF opens = {} THEN [match |-> FALSE]
     ELSE LET i == CHOOSE x \in opens : \A y \in opens : x <= y
              j == CHOOSE x \in closes : \A y \in closes : y <= x
          IN [match |-> TRUE, group1 |-> SubSeq(s, i + 1, j - 1)]

\* A sequence but its last element.
Front(ls) == SubSeq(ls, 1, Len(ls) - 1)

\* ------------------------------------------------------------------------
\* A dict is the sequence of its (key, value) pairs in insertion order.

Keys(d) == {d[i][1] : i \in 1..Len(d)}

\* d[k], for k in d
Get(d, k) == d[CHOOSE i \in 1..Len(d) : d[i][1] = k][2]

\* d.update({k: v}) (or d[k] = v): a new key goes last, an old one keeps its place.
Update(d, k, v) ==
  IF k \in Keys(d)
    THEN [i \in 1..Len(d) |-> IF d[i][1] = k THEN <<k, v>> ELSE d[i]]
    ELSE Append(d, <<k, v>>)

RECURSIVE UpdateAll(_, _)
\* d.update(e)
UpdateAll(d, e) ==
  IF e = <<>> THEN d ELSE UpdateAll(Update(d, Head(e)[1], Head(e)[2]), Tail(e))

\* ------------------------------------------------------------------------
\* invoice_handler: the literals of the code.

s_product == <<"p", "r", "o", "d", "u", "c", "t">>
s_Product == <<"P", "r", "o", "d", "u", "c", "t">>
s_gst == <<"g", "s", "t">>
s_Invoice_number == <<"I", "n", "v", "o", "i", "c", "e", " ", "n", "u", "m", "b", "e", "r">>
s_Credit_memo_number == <<"C", "r", "e", "d", "i", "t", " ", "m", "e", "m", "o", " ", "n", "u", "m", "b", "e", "r">>
s_Debit_memo_number == <<"D", "e", "b", "i", "t", " ", "m", "e", "m", "o", " ", "n", "u", "m", "b", "e", "r">>
s_gst_pct == <<"g", "s", "t", "_", "p", "c", "t">>
s_gst_val == <<"g", "s", "t", "_", "v", "a", "l">>
s_Display_and_Video_360 == <<"D", "i", "s", "p", "l", "a", "y", " ", "a", "n", "d", " ", "V", "i", "d", "e", "o", " ", "3", "6", "0">>
s_Campaign_Manager == <<"C", "a", "m", "p", "a", "i", "g", "n", " ", "M", "a", "n", "a", "g", "e", "r">>
s_DoubleClick_Campaign_Manager == <<"D", "o", "u", "b", "l", "e", "C", "l", "i", "c", "k", " ", "C", "a", "m", "p", "a", "i", "g", "n", " ", "M", "a", "n", "a", "g", "e", "r">>

SUPPORTED_PRODUCTS_mut ==
  {s_Display_and_Video_360, s_Campaign_Manager, s_DoubleClick_Campaign_Manager,
   <<"S", "o", "m", "e", " ", "O", "t", "h", "e", "r", " ", "P", "r", "o", "d", "u", "c", "t">>}

SUPPORTED_PRODUCTS ==
  {s_Display_and_Video_360, s_Campaign_Manager, s_DoubleClick_Campaign_Manager}

\* class State(enum.Enum)
READ_HEADER == 1
READ_PRODUCT == 2
READ_ENTRIES == 3
READ_GST == 4

\* ------------------------------------------------------------------------
\* invoice_handler.read_header.  An operator that models a function that can
\* raise returns [exc |-> the exception, or None, value |-> the value returned].

read_header_mut(row) ==
  IF Len(row) < 2 THEN [exc |-> "IndexError"]
  ELSE [exc |-> None, value |-> <<<<row[1], row[2]>>>>]

read_header(row) ==
  IF Len(row) < 2 THEN [exc |-> "IndexError"]
  ELSE [exc |-> None, value |-> <<<<Remove(row[1], BOM), row[2]>>>>]

\* invoice_handler.read_gst (row[0] of the code is row[1] here).
gst_fields_mut(row, col) ==
  LET m == ReSearch(row[col])
  IN IF ~m.match THEN [exc |-> "TypeError"]
     ELSE [exc |-> None,
           value |-> <<<<s_gst_pct, m.group1>>, <<s_gst_val, row[col]>>>>]

gst_fields(row, col) ==
  LET m == ReSearch(row[col])
  IN IF ~m.match THEN [exc |-> "TypeError"]
     ELSE [exc |-> None,
           value |-> <<<<s_gst_pct, m.group1>>, <<s_gst_val, row[Len(row)]>>>>]

read_gst(row) ==
  IF row[1] # <<>> THEN [exc |-> None, value |-> <<>>]
  ELSE IF Len(row) < 3 THEN [exc |-> "IndexError"]
  ELSE IF Contains(s_gst, Lower(row[3])) THEN gst_fields(row, 3)
  ELSE IF Len(row) < 4 THEN [exc |-> "IndexError"]
  ELSE IF Contains(s_gst, Lower(row[4])) THEN gst_fields(row, 4)
  ELSE [exc |-> None, value |-> <<>>]

\* dict(zip(header, cells))
RECURSIVE DictZip(_, _)
DictZip(header, cells) ==
  IF header = <<>> \/ cells = <<>> THEN <<>>
  ELSE LET n == Min2(Len(header), Len(cells))
       IN Update(DictZip(SubSeq(header, 1, n - 1), SubSeq(cells, 1, n - 1)),
                 header[n], cells[n])

\* invoice_handler.read_entries
TagKey == s_Invoice_number

read_entries_mut(number, rows) ==
  IF rows = <<>> THEN [exc |-> "IndexError"]
  ELSE LET header == rows[1]
           entries == Tail(rows)
       IN [exc |-> None,
           value |-> [i \in 1..Len(entries) |->
                        Update(DictZip(header, entries[i]), TagKey, number)]]

read_entries(number, rows) ==
  IF rows = <<>> THEN [exc |-> "IndexError"]
  ELSE LET header == rows[1]
           entries == Tail(rows)
       IN [exc |-> None,
           value |-> [i \in 1..Len(entries) |->
                        Update(DictZip(header,
                                       [c \in 1..Len(entries[i]) |-> Strip(entries[i][c])]),
                               TagKey, number)]]

\* The lookup of the invoice number in read.
NumberKeys_mut == <<s_Credit_memo_number, s_Invoice_number, s_Debit_memo_number>>

NumberKeys == <<s_Invoice_number, s_Credit_memo_number, s_Debit_memo_number>>

ResolveNumber(header) ==
  IF NumberKeys[1] \in Keys(header) THEN [exc |-> None, value |-> Get(header, NumberKeys[1])]
  ELSE IF NumberKeys[2] \in Keys(header)
    THEN [exc |-> None, value |-> Get(header, NumberKeys[2])]
  ELSE IF NumberKeys[3] \in Keys(header)
    THEN [exc |-> None, value |-> Get(header, NumberKeys[3])]
  ELSE [exc |-> "KeyError"]

\* ------------------------------------------------------------------------
\* The rows of the invoice files followed.

InvoiceRow ==
  <<<<BOM, "I", "n", "v", "o", "i", "c", "e", " ", "n", "u", "m", "b", "e", "r">>,
   <<"I", "N", "V", "-", "1">>>>
CreditRow ==
  <<<<"C", "r", "e", "d", "i", "t", " ", "m", "e", "m", "o", " ", "n", "u", "m", "b", "e", "r">>,
   <<"C", "M", "-", "7">>>>
DebitRow ==
  <<<<"D", "e", "b", "i", "t", " ", "m", "e", "m", "o", " ", "n", "u", "m", "b", "e", "r">>,
   <<"D", "M", "-", "9">>>>
OneCellRow ==
  <<<<"T", "e", "r", "m", "s">>>>
ProductRow ==
  <<<<"P", "r", "o", "d", "u", "c", "t">>,
   <<"C", "a", "m", "p", "a", "i", "g", "n", " ", "M", "a", "n", "a", "g", "e", "r">>>>
OtherProductRow ==
  <<<<"P", "r", "o", "d", "u", "c", "t">>,
   <<"S", "o", "m", "e", " ", "O", "t", "h", "e", "r", " ", "P", "r", "o", "d", "u", "c", "t">>>>
UpperProductRow ==
  <<<<"P", "R", "O", "D", "U", "C", "T">>,
   <<"C", "a", "m", "p", "a", "i", "g", "n", " ", "M", "a", "n", "a", "g", "e", "r">>>>
UpperOtherProductRow ==
  <<<<"P", "R", "O", "D", "U", "C", "T">>,
   <<"S", "o", "m", "e", " ", "O", "t", "h", "e", "r", " ", "P", "r", "o", "d", "u", "c", "t">>>>
ProductOnlyRow ==
  <<<<"P", "r", "o", "d", "u", "c", "t">>>>
ColumnsRow ==
  <<<<"I", "t", "e", "m">>,
   <<"Q", "t", "y">>>>
WidgetRow ==
  <<<<"W", "i", "d", "g", "e", "t">>,
   <<" ", "2", " ">>>>
GadgetRow ==
  <<<<"G", "a", "d", "g", "e", "t">>,
   <<"3">>>>
RepeatedColumnsRow ==
  <<<<"I", "t", "e", "m">>,
   <<"Q", "t", "y">>,
   <<"Q", "t", "y">>>>
LongRow ==
  <<<<"G", "i", "z", "m", "o">>,
   <<" ", "1">>,
   <<"9", ".", "0", "0">>>>
GstRow ==
  <<<<>>,
   <<>>,
   <<"G", "S", "T", " ", "(", "1", "5", "%", ")">>,
   <<>>,
   <<"4", "2", ".", "0", "0">>>>
Gst3Row ==
  <<<<>>,
   <<>>,
   <<>>,
   <<"G", "s", "t", " ", "(", "1", "0", "%", ")">>,
   <<"5", ".", "0", "0">>>>
SubtotalRow ==
  <<<<>>,
   <<>>,
   <<"S", "u", "b", "t", "o", "t", "a", "l">>,
   <<>>,
   <<"1", "0", "0", ".", "0", "0">>>>
ShortRow ==
  <<<<>>,
   <<"T", "o", "t", "a", "l">>>>
NoPctRow ==
  <<<<>>,
   <<>>,
   <<"G", "S", "T">>,
   <<>>,
   <<"1", ".", "0", "0">>>>

BlankRow == <<>>

\* At most this many rows before the first blank row.
MaxHeaderRows == 2
\* At most this many rows are buffered as entries.
MaxEntryRows == 3
\* At most this many rows are read in state READ_GST.
MaxTaxRows == 2

\* The rows a file continues with, by the state of read.
RowsOffered ==
  IF state = READ_HEADER
    THEN {BlankRow} \cup
         (IF Len(lines) < MaxHeaderRows
            THEN {InvoiceRow, CreditRow, DebitRow, OneCellRow} ELSE {})
  ELSE IF state = READ_PRODUCT
    THEN {BlankRow} \cup
         (IF lines[Len(lines)] = BlankRow
            THEN {ProductRow, OtherProductRow, UpperProductRow, UpperOtherProductRow,
                  ProductOnlyRow, InvoiceRow}
            ELSE {})
  ELSE IF state = READ_ENTRIES
    THEN {BlankRow, GstRow, SubtotalRow, ShortRow} \cup
         (IF Len(invoice_entries) < MaxEntryRows
            THEN (IF invoice_entries = <<>>
                    THEN {ColumnsRow, RepeatedColumnsRow}
                    ELSE {WidgetRow, GadgetRow, LongRow})
            ELSE {})
  ELSE IF Len(lines) - gst_from + 1 < MaxTaxRows
    THEN {BlankRow, GstRow, Gst3Row, SubtotalRow, ShortRow, NoPctRow, WidgetRow}
    ELSE {}

\* ------------------------------------------------------------------------
\* invoice_handler.read: one iteration of `for row in reader`.

Raise(exc) ==
  /\ read_pc' = exc
  /\ UNCHANGED <<invoice_header, invoice_entries>>

IsProductRow(row) == Lower(row[1]) = s_product

\* read: the state after the state transition block, for a row that the block
\* handles without raising (a row without cells only in READ_HEADER and
\* READ_PRODUCT: in the other states `not row[0]` raises IndexError).
Transition_mut(row, st) ==
  IF row = <<>> /\ st = READ_HEADER THEN READ_PRODUCT
  ELSE IF row = <<>> /\ st = READ_PRODUCT THEN READ_GST
  ELSE IF row[1] = <<>> /\ st = READ_ENTRIES THEN READ_GST
  ELSE st

Transition_back(row, st) ==
  IF row = <<>> /\ st = READ_HEADER THEN READ_PRODUCT
  ELSE IF row = <<>> /\ st = READ_PRODUCT THEN READ_ENTRIES
  ELSE IF row[1] = <<>> /\ st = READ_ENTRIES THEN READ_GST
  ELSE IF row[1] # <<>> /\ st = READ_GST THEN READ_ENTRIES
  ELSE st

Transition(row, st) ==
  IF row = <<>> /\ st = READ_HEADER THEN READ_PRODUCT
  ELSE IF row = <<>> /\ st = READ_PRODUCT THEN READ_ENTRIES
  ELSE IF row[1] = <<>> /\ st = READ_ENTRIES THEN READ_GST
  ELSE st

ReadRow ==
  /\ read_pc = "reading"
  /\ \E row \in RowsOffered :
       /\ lines' = Append(lines, row)
       /\ IF row = <<>> /\ state \in {READ_HEADER, READ_PRODUCT}
            \* state = ...; continue
            THEN /\ state' = Transition(row, state)
                 /\ UNCHANGED <<read_pc, invoice_header, invoice_entries, gst_from>>
          ELSE IF row = <<>>
            \* not row[0], for a row without cells
            THEN /\ Raise("IndexError")
                 /\ UNCHANGED <<state, gst_from>>
          ELSE
            /\ state' = Transition(row, state)
            /\ gst_from' = IF state' = READ_GST /\ state # READ_GST
                             THEN Len(lines') ELSE gst_from
            /\ IF state' = READ_HEADER
                 THEN LET h == read_header(row) IN
                      IF h.exc # None THEN Raise(h.exc)
                      ELSE /\ invoice_header' = UpdateAll(invoice_header, h.value)
                           /\ UNCHANGED <<read_pc, invoice_entries>>
               ELSE IF state' = READ_PRODUCT
                 THEN IF ~IsProductRow(row) THEN Raise("ProductNotFoundError")
                      ELSE LET h == read_header(row) IN
                           IF h.exc # None THEN Raise(h.exc)
                           ELSE /\ invoice_header' = UpdateAll(invoice_header, h.value)
                                /\ UNCHANGED invoice_entries
                                /\ read_pc' =
                                     IF s_Product \notin Keys(invoice_header')
                                       THEN "KeyError"
                                     ELSE IF Get(invoice_header', s_Product)
                                               \notin SUPPORTED_PRODUCTS
                                       THEN "IncorrectProductError"
                                     ELSE read_pc
               ELSE IF state' = READ_ENTRIES
                 THEN /\ invoice_entries' = Append(invoice_entries, row)
                      /\ UNCHANGED <<read_pc, invoice_header>>
               ELSE LET g == read_gst(row) IN
                    IF g.exc # None THEN Raise(g.exc)
                    ELSE /\ invoice_header' = UpdateAll(invoice_header, g.value)
                         /\ UNCHANGED <<read_pc, invoice_entries>>
  /\ UNCHANGED <<invoice_number, invoice_entries_dict, eof>>
  /\ UNCHANGED <<pollVars, bqVars, dateVars, runVars>>

\* invoice_handler.read: the end of the file, after the loop.
ReadEnd ==
  /\ read_pc = "reading"
  /\ eof' = TRUE
  /\ LET n == ResolveNumber(invoice_header) IN
     IF n.exc # None
       THEN /\ read_pc' = n.exc
            /\ UNCHANGED <<invoice_number, invoice_entries_dict>>
       ELSE /\ invoice_number' = n.value
            /\ LET e == read_entries(n.value, invoice_entries) IN
               IF e.exc # None
                 THEN /\ read_pc' = e.exc
                      /\ UNCHANGED invoice_entries_dict
                 ELSE /\ read_pc' = "returned"
                      /\ invoice_entries_dict' = e.value
  /\ UNCHANGED <<lines, state, invoice_header, invoice_entries, gst_from>>
  /\ UNCHANGED <<pollVars, bqVars, dateVars, runVars>>

InvIdle ==
  /\ lines = <<>> /\ read_pc = "idle" /\ state = READ_HEADER
  /\ invoice_header = <<>> /\ invoice_entries = <<>>
  /\ invoice_number = None /\ invoice_entries_dict = None
  /\ gst_from = 0 /\ eof = FALSE

\* No wait is running.
PollIdle ==
  /\ wait = "none" /\ pc = "idle"
  /\ now = 0 /\ start_time = 0 /\ sleep = 0
  /\ query_ids = <<>> /\ svc = <<>> /\ statuses = <<>> /\ order = <<>>
  /\ ret = None /\ elapsed = 0 /\ slept = 0

InitInvoice ==
  /\ lines = <<>> /\ read_pc = "reading" /\ state = READ_HEADER
  /\ invoice_header = <<>> /\ invoice_entries = <<>>
  /\ invoice_number = None /\ invoice_entries_dict = None
  /\ gst_from = 0 /\ eof = FALSE
  /\ PollIdle /\ BqIdle /\ DateIdle /\ RunIdle

NextInvoice == ReadRow \/ ReadEnd

SpecInvoice == InitInvoice /\ [][NextInvoice]_vars

\* ------------------------------------------------------------------------
\* The reporting services.

\* The time one status request (or one round of them) takes.
Latencies == {0, SOCKET_TIMEOUT}

\* Campaign Manager: the status of a report file.
FileStatuses == {"PROCESSING", "REPORT_AVAILABLE", "FAILED", "CANCELLED"}

\* DV360: the locator of the report of query q.
Url(q) == "gs://report/" \o ToString(q)

\* DV360: what a response to getquery says: metadata.running, and whether
\* metadata.googleCloudStoragePathForLatestReport is there.
Signals == [running : BOOLEAN, located : BOOLEAN]

\* The response to getquery for query q that says sig.
Response(q, sig) ==
  [running |-> sig.running, url |-> IF sig.located THEN Url(q) ELSE None]

\* A query that has stopped running is terminal; a running one may stop, with or
\* without a report.
Evolve(q, r) == IF r.running THEN {Response(q, sig) : sig \in Signals} ELSE {r}

\* ------------------------------------------------------------------------
\* dv360_handler._get_report_status: the query_status dict built from a response.

_get_report_status_mut(response) ==
  IF response.url # None
    THEN [status |-> "Completed", url |-> response.url]
    ELSE IF ~response.running THEN [status |-> "Failed"] ELSE [status |-> "Running"]

_get_report_status(response) ==
  LET is_running == response.running
      report_url == response.url
  IN IF (~is_running) /\ report_url # None
       THEN [status |-> "Completed", url |-> report_url]
       ELSE IF (~is_running) /\ report_url = None
         THEN [status |-> "Failed"]
         ELSE [status |-> "Running"]

\* The orders in which concurrent.futures.as_completed can yield n futures.
Perms(n) == {p \in [1..n -> 1..n] : \A i, j \in 1..n : p[i] = p[j] => i = j}

\* all([s['status'] == 'Completed' for s in statuses])
AllCompleted(ss) == \A i \in 1..Len(ss) : ss[i].status = "Completed"

\* [s['url'] for s in statuses]
UrlsOf_mut(ss) == [i \in 1..Len(ss) |-> ss[1].url]

UrlsOf(ss) == [i \in 1..Len(ss) |-> ss[i].url]

\* ------------------------------------------------------------------------
\* cm_handler.run_report_and_wait: one iteration of the polling loop.

CmIsAvailable(status) == status = "REPORT_AVAILABLE"

DeadlineExceeded_mut(t) == start_time - t > MAX_RETRY_ELAPSED_TIME

DeadlineExceeded(t) == t - start_time > MAX_RETRY_ELAPSED_TIME

CmTick ==
  /\ wait = "cm" /\ pc = "polling"
  /\ \E d \in Latencies, status \in FileStatuses :
       LET t == now + d IN
       /\ statuses' = <<status>>
       /\ elapsed' = t - start_time
       /\ IF CmIsAvailable(status)
            THEN /\ pc' = "returned"
                 /\ now' = t
                 /\ UNCHANGED sleep /\ slept' = 0
            ELSE IF status # "PROCESSING"
              THEN /\ pc' = "ReportRunError"
                   /\ now' = t
                   /\ UNCHANGED sleep /\ slept' = 0
              ELSE IF DeadlineExceeded(t)
                THEN /\ pc' = "ReportRunDeadlineExceeded"
                     /\ now' = t
                     /\ UNCHANGED sleep /\ slept' = 0
                ELSE \E r \in RandomDraws(min_interval(sleep), max_interval(sleep)) :
                       /\ r \in randint(min_interval(sleep), max_interval(sleep))
                       /\ sleep' = _next_sleep_interval(sleep, r)
                       /\ slept' = sleep'
                       /\ now' = t + sleep'
                       /\ pc' = "polling"
  /\ UNCHANGED <<wait, start_time, query_ids, svc, order, ret>>
  /\ UNCHANGED <<invVars, bqVars, dateVars, runVars>>

\* ------------------------------------------------------------------------
\* dv360_handler.wait_for_reports_to_complete: one iteration of the loop,
\* _get_reports_status included.

DvTick ==
  /\ wait = "dv360" /\ pc = "polling"
  /\ now - start_time <= MaxElapsed
  /\ LET n == Len(query_ids) IN
     \E d \in Latencies, p \in Perms(n), sigs \in [1..n -> Signals] :
       LET responses == [i \in 1..n |-> Response(query_ids[i], sigs[i])] IN
       /\ \A i \in 1..n : responses[i] \in Evolve(query_ids[i], svc[query_ids[i]])
       /\ svc' = [q \in 1..n |-> responses[q]]
       /\ order' = [i \in 1..n |-> query_ids[p[i]]]
       /\ statuses' = [i \in 1..n |-> _get_report_status(responses[p[i]])]
       /\ now' = now + d
       /\ elapsed' = now' - start_time
       /\ IF AllCompleted(statuses')
            THEN /\ pc' = "returned"
                 /\ ret' = UrlsOf(statuses')
            ELSE /\ pc' = "polling"
                 /\ UNCHANGED ret
  /\ slept' = 0
  /\ UNCHANGED <<wait, start_time, sleep, query_ids>>
  /\ UNCHANGED <<invVars, bqVars, dateVars, runVars>>

\* ------------------------------------------------------------------------
\* dv360_handler.create_timezone_report: one iteration of the loop.  The module
\* never imports time, so time.sleep(5) raises NameError.

TzTick ==
  /\ wait = "timezone" /\ pc = "polling"
  /\ \E d \in Latencies, response \in Evolve(1, svc[1]) :
       LET query_status == _get_report_status(response) IN
       /\ svc' = [svc EXCEPT ![1] = response]
       /\ statuses' = <<query_status>>
       /\ now' = now + d
       /\ elapsed' = now' - start_time
       /\ IF query_status.status = "Completed"
            THEN pc' = "returned" /\ ret' = query_status.url
            ELSE IF query_status.status = "Failed"
              THEN pc' = "ReportError" /\ UNCHANGED ret
              ELSE pc' = "NameError" /\ UNCHANGED ret
  /\ slept' = 0
  /\ UNCHANGED <<wait, start_time, sleep, query_ids, order>>
  /\ UNCHANGED <<invVars, bqVars, dateVars, runVars>>

\* ------------------------------------------------------------------------
\* The waits, each from its first line.

InitPoll ==
  /\ wait \in {"cm", "dv360", "timezone"}
  /\ pc = "polling"
  /\ now = 0 /\ start_time = 0 /\ sleep = 0
  /\ \E n \in 0..NumJobs :
       /\ query_ids = [i \in 1..(IF wait = "dv360" THEN n ELSE 1) |-> i]
       /\ svc = [q \in 1..Len(query_ids) |-> [running |-> TRUE, url |-> None]]
  /\ statuses = <<>> /\ order = <<>>
  /\ ret = IF wait = "dv360" THEN <<>> ELSE None
  /\ elapsed = 0 /\ slept = 0
  /\ InvIdle /\ BqIdle /\ DateIdle /\ RunIdle

NextPoll == CmTick \/ DvTick \/ TzTick

SpecPoll == InitPoll /\ [][NextPoll]_vars

\* run_report_and_wait goes on by itself: while True has no other exit than the
\* ones of CmTick, and every status query is taken to return.
SpecPollFair == SpecPoll /\ WF_<<pc, now>>(CmTick)

\* ------------------------------------------------------------------------
\* _next_sleep_interval called again and again on its own result, from 0.

BackoffCall ==
  /\ wait = "backoff"
  /\ \E r \in randint(min_interval(sleep), max_interval(sleep)) :
       sleep' = _next_sleep_interval(sleep, r)
  /\ UNCHANGED <<wait, pc, now, start_time, query_ids, svc, statuses, order, ret,
                 elapsed, slept>>
  /\ UNCHANGED <<invVars, bqVars, dateVars, runVars>>

InitBackoff ==
  /\ wait = "backoff" /\ pc = "polling"
  /\ now = 0 /\ start_time = 0 /\ sleep = 0
  /\ query_ids = <<>> /\ svc = <<>> /\ statuses = <<>> /\ order = <<>>
  /\ ret = None /\ elapsed = 0 /\ slept = 0
  /\ InvIdle /\ BqIdle /\ DateIdle /\ RunIdle

SpecBackoff == InitBackoff /\ [][BackoffCall]_vars

\* ------------------------------------------------------------------------
\* bq_handler: the keys of the rows, and the fields of a schema.

\* str.replace(a, b), for characters a and b
ReplaceChar(s, a, b) == [i \in 1..Len(s) |-> IF s[i] = a THEN b ELSE s[i]]

\* _remove_special_chars
_remove_special_chars(field) ==
  Lower(Remove(Remove(ReplaceChar(field, " ", "_"), "("), ")"))

s_insert_time == <<"i", "n", "s", "e", "r", "t", "_", "t", "i", "m", "e">>
s_Qty == <<"Q", "t", "y">>
s_qty == <<"q", "t", "y">>
s_Cost_USD == <<"C", "o", "s", "t", " ", "(", "U", "S", "D", ")">>

\* bigquery.SchemaField(name, field_type)
SchemaField(name, field_type) == <<name, field_type>>

\* [k for k in d.keys()]
KeysOf(d) == [i \in 1..Len(d) |-> d[i][1]]

\* _fix_keys_in_data: key_map, the fixed name of every key of every row
RECURSIVE key_map(_)
key_map(rows) ==
  IF rows = <<>> THEN <<>>
  ELSE LET row == rows[Len(rows)]
       IN UpdateAll(key_map(Front(rows)),
                    [i \in 1..Len(row) |-> <<row[i][1], _remove_special_chars(row[i][1])>>])

\* _fix_keys_in_data: {key_map[k]: v for k, v in row.items()}
RECURSIVE new_row(_, _)
new_row(km, row) ==
  IF row = <<>> THEN <<>>
  ELSE Update(new_row(km, Front(row)), Get(km, row[Len(row)][1]), row[Len(row)][2])

_fix_keys_in_data(rows, insert_time) ==
  [i \in 1..Len(rows) |-> Update(new_row(key_map(rows), rows[i]), s_insert_time, insert_time)]

\* _add_new_columns: new_fields
new_fields(table_schema, columns) ==
  SelectSeq([i \in 1..Len(columns) |-> SchemaField(columns[i], "STRING")],
            LAMBDA field : ~\E j \in 1..Len(table_schema) : table_schema[j] = field)

\* BigQuery refuses a schema in which two fields have the same name.
ValidSchema(fields) ==
  \A i, j \in 1..Len(fields) : fields[i][1] = fields[j][1] => i = j

\* What a load job with ignore_unknown_values=True stores of a row: the values
\* that have a field in the schema of the job.
Stored(row, fields) ==
  SelectSeq(row, LAMBDA kv : \E j \in 1..Len(fields) : fields[j][1] = kv[1])

\* ------------------------------------------------------------------------
\* bq_handler.upload_to_bq

\* At most this many rows are uploaded.
MaxRows == 2

\* str(insert_time)
InsertTime == <<"2", "0", "2", "0">>

\* The keys the rows have, and the rows: one for every set of keys.
DataKeys == <<s_Qty, s_Cost_USD, s_gst_pct>>

DataRow(ks) ==
  SelectSeq([i \in 1..Len(DataKeys) |-> <<DataKeys[i], <<"1">>>>], LAMBDA kv : kv[1] \in ks)

DataRows_Offered ==
  {DataRow(ks) : ks \in (SUBSET {DataKeys[i] : i \in 1..Len(DataKeys)}) \ {{}}}

\* The tables uploaded to: none, or one with a schema and maybe a row.
Tables ==
  {[exists |-> FALSE, schema |-> <<>>, rows |-> <<>>]} \cup
  [exists : {TRUE},
   schema : {<<>>, <<SchemaField(s_qty, "STRING")>>, <<SchemaField(s_qty, "INTEGER")>>},
   rows : {<<>>, <<<<>>>>}]

UploadToBq ==
  /\ bq_pc = "called"
  /\ IF table_data = <<>>
       THEN /\ bq_pc' = "returned"
            /\ UNCHANGED <<table, table_data_updated, schema>>
       ELSE LET updated == _fix_keys_in_data(table_data, InsertTime) IN
            /\ table_data_updated' = updated
            /\ IF ~table.exists
                 \* client.get_table raises NotFound
                 THEN /\ bq_pc' = "NotFound"
                      /\ UNCHANGED <<table, schema>>
                 ELSE LET widened == table.schema \o
                                       new_fields(table.schema, KeysOf(updated[1]))
                      IN IF ~ValidSchema(widened)
                           \* client.update_table raises BadRequest
                           THEN /\ bq_pc' = "BadRequest"
                                /\ UNCHANGED <<table, schema>>
                           ELSE /\ schema' = widened
                                /\ table' =
                                     [exists |-> TRUE,
                                      schema |-> widened,
                                      rows |-> (IF delete THEN <<>> ELSE table.rows) \o
                                               [i \in 1..Len(updated) |->
                                                  Stored(updated[i], widened)]]
                                /\ bq_pc' = "returned"
  /\ UNCHANGED <<table_data, delete>>
  /\ UNCHANGED <<pollVars, invVars, dateVars, runVars>>

InitUpload ==
  /\ bq_pc = "called"
  /\ table_data \in UNION {[1..n -> DataRows_Offered] : n \in 0..MaxRows}
  /\ delete \in BOOLEAN
  /\ table \in Tables
  /\ table_data_updated = <<>> /\ schema = <<>>
  /\ PollIdle /\ InvIdle /\ DateIdle /\ RunIdle

SpecUpload == InitUpload /\ [][UploadToBq]_vars

\* ------------------------------------------------------------------------
\* util._get_valid_start_date

\* datetime.datetime(year, month, day): ValueError for a year outside
\* MINYEAR..MAXYEAR, a month outside 1..12, a day the month does not have.
datetime(y, m, d) ==
  IF y \in 1..9999 /\ m \in 1..12 /\ d \in 1..28
    THEN [exc |-> None, value |-> [year |-> y, month |-> m, day |-> d]]
    ELSE [exc |-> "ValueError"]

\* The years followed.
Years == {2025, 2026}

GetValidStartDate ==
  /\ date_pc = "called"
  /\ LET r == IF year = 0 \/ month = 0
                THEN datetime(cur_time.year, cur_time.month - 1, 1)
                ELSE datetime(year, month, 1)
     IN IF r.exc # None
          THEN /\ date_pc' = r.exc
               /\ UNCHANGED start_date
          ELSE /\ date_pc' = "returned"
               /\ start_date' = r.value
  /\ UNCHANGED <<cur_time, month, year>>
  /\ UNCHANGED <<pollVars, invVars, bqVars, runVars>>

InitDate ==
  /\ date_pc = "called"
  /\ cur_time \in [year : Years, month : 1..12]
  /\ month \in 0..12
  /\ year \in {0} \cup Years
  /\ start_date = [year |-> 0, month |-> 0, day |-> 0]
  /\ PollIdle /\ InvIdle /\ BqIdle /\ RunIdle

SpecDate == InitDate /\ [][GetValidStartDate]_vars

\* ------------------------------------------------------------------------
\* cm_handler.run_report_and_wait, from the download of the file on: the payload
\* is a list of rows of cells, as csv.reader gives them (a blank line is []).

\* At most this many rows are in a payload.
MaxPayloadRows == 5

s_Report_Fields == "Report Fields"

PreambleRow == <<"Campaign Manager Report">>
MarkerRow == <<s_Report_Fields>>
HeadingRow == <<"Site", "Clicks">>
SiteRow == <<"a.com", "1">>
ShortSiteRow == <<"b.com">>
TotalRow == <<"Grand Total:", "1">>

PayloadRows == {<<>>, PreambleRow, MarkerRow, HeadingRow, SiteRow, ShortSiteRow, TotalRow}

Payloads == UNION {[1..n -> PayloadRows] : n \in 0..MaxPayloadRows}

\* report_data[a:-1], for a >= 0, with the numbering of Python (from 0)
SliceToLast(rows, a) == SubSeq(rows, a + 1, Len(rows) - 1)

\* _clean_up: the numbers (from 0) of the rows that open the report
MarkerRows(rows) ==
  {i \in 0..(Len(rows) - 1) :
     rows[i + 1] # <<>> /\ rows[i + 1][1] = s_Report_Fields}

_clean_up_mut(rows) ==
  IF MarkerRows(rows) = {}
    THEN [exc |-> "UnboundLocalError", value |-> <<>>]
    ELSE LET i == CHOOSE i \in MarkerRows(rows) :
                    \A j \in MarkerRows(rows) : i <= j
         IN [exc |-> None, value |-> SliceToLast(rows, i)]

\* _clean_up: start_idx stays unbound when no row opens the report
_clean_up(rows) ==
  IF MarkerRows(rows) = {}
    THEN [exc |-> "UnboundLocalError", value |-> <<>>]
    ELSE LET i == CHOOSE i \in MarkerRows(rows) :
                    \A j \in MarkerRows(rows) : i <= j
             start_idx == i + 1
         IN [exc |-> None, value |-> SliceToLast(rows, start_idx)]

\* run_report_and_wait, lines 270 to 277
BuildRecords ==
  /\ report_pc = "downloaded"
  /\ LET cleaned == _clean_up(report_data) IN
     IF cleaned.exc # None
       THEN report_pc' = cleaned.exc /\ UNCHANGED report_data_objects
       ELSE LET report_data_cleaned == cleaned.value IN
            IF report_data_cleaned = <<>>
              THEN report_pc' = "IndexError" /\ UNCHANGED report_data_objects
              ELSE LET heading == report_data_cleaned[1] IN
                   /\ report_data_objects' =
                        [r \in 1..(Len(report_data_cleaned) - 1) |->
                           DictZip(heading, report_data_cleaned[r + 1])]
                   /\ report_pc' = "returned"
  /\ UNCHANGED report_data
  /\ UNCHANGED <<pollVars, invVars, bqVars, dateVars, poolVars, batchVars, etlVars>>

InitReport ==
  /\ report_pc = "downloaded"
  /\ report_data \in Payloads
  /\ report_data_objects = <<>>
  /\ PollIdle /\ InvIdle /\ BqIdle /\ DateIdle /\ PoolIdle /\ BatchIdle /\ EtlIdle

SpecReport == InitReport /\ [][BuildRecords]_vars

\* ------------------------------------------------------------------------
\* dv360_handler._get_reports_status (create_reports has the same block): the
\* calls are submitted to a ThreadPoolExecutor, the threads of the pool run them,
\* and the caller gathers the results with as_completed inside the with block.

\* At most this many calls are submitted in one batch.
MaxCalls == 3

\* The pool is at most this wide (_MAX_WORKERS is 1).
MaxWidth == 2

_MAX_WORKERS == 1

\* The result of call i.
ResultOf(i) == [call |-> i]

Running(w) == {i \in 1..Len(w) : w[i] = "running"}

Finished(w) == {i \in 1..Len(w) : w[i] \in {"done", "raised"}}

\* The work queue of the executor hands out the calls in the order of submission.
NextQueued(w, i) == w[i] = "pending" /\ \A j \in 1..(i - 1) : w[j] # "pending"

\* as_completed(wait_for) is exhausted: it has yielded every future of wait_for.
Exhausted_mut(ys, w) == ys # {}

Exhausted(ys, w) == ys = 1..Len(w)

\* executor.submit(...) of the list comprehension, one call at a time
Submit ==
  /\ pool_pc = "submitting"
  /\ IF Len(wait_for) < calls
       THEN /\ wait_for' = Append(wait_for, "pending")
            /\ UNCHANGED pool_pc
       ELSE /\ pool_pc' = "collecting"
            /\ UNCHANGED wait_for
  /\ UNCHANGED <<calls, max_workers, yielded, status_all, pool_ret>>
  /\ UNCHANGED <<pollVars, invVars, bqVars, dateVars, reportVars, batchVars, etlVars>>

\* A thread of the pool takes the next call of the queue.
WorkerStart ==
  /\ pool_pc \in {"submitting", "collecting", "joining"}
  /\ Cardinality(Running(wait_for)) < max_workers
  /\ \E i \in 1..Len(wait_for) :
       /\ NextQueued(wait_for, i)
       /\ wait_for' = [wait_for EXCEPT ![i] = "running"]
  /\ UNCHANGED <<pool_pc, calls, max_workers, yielded, status_all, pool_ret>>
  /\ UNCHANGED <<pollVars, invVars, bqVars, dateVars, reportVars, batchVars, etlVars>>

\* The call of a thread returns or raises (the request fails).
WorkerFinish ==
  /\ pool_pc \in {"submitting", "collecting", "joining"}
  /\ \E i \in Running(wait_for), outcome \in {"done", "raised"} :
       wait_for' = [wait_for EXCEPT ![i] = outcome]
  /\ UNCHANGED <<pool_pc, calls, max_workers, yielded, status_all, pool_ret>>
  /\ UNCHANGED <<pollVars, invVars, bqVars, dateVars, reportVars, batchVars, etlVars>>

\* for f in as_completed(wait_for): status_all.append(f.result()), one
\* iteration; f.result() raises what the call raised.
Collect ==
  /\ pool_pc = "collecting"
  /\ \E i \in Finished(wait_for) \ yielded :
       /\ yielded' = yielded \cup {i}
       /\ IF wait_for[i] = "raised"
            THEN pool_pc' = "joining" /\ UNCHANGED status_all
            ELSE /\ status_all' = Append(status_all, ResultOf(i))
                 /\ UNCHANGED pool_pc
  /\ UNCHANGED <<calls, max_workers, wait_for, pool_ret>>
  /\ UNCHANGED <<pollVars, invVars, bqVars, dateVars, reportVars, batchVars, etlVars>>

\* The end of the loop and of the with block, and return status_all.
Return ==
  /\ pool_pc = "collecting"
  /\ Exhausted(yielded, wait_for)
  /\ Finished(wait_for) = 1..Len(wait_for)
  /\ pool_pc' = "returned"
  /\ pool_ret' = status_all
  /\ UNCHANGED <<calls, max_workers, wait_for, yielded, status_all>>
  /\ UNCHANGED <<pollVars, invVars, bqVars, dateVars, reportVars, batchVars, etlVars>>

\* An exception leaves the with block: __exit__ runs shutdown(wait=True), which
\* returns when every call submitted has run, and the exception goes on.
Reraise ==
  /\ pool_pc = "joining"
  /\ Finished(wait_for) = 1..Len(wait_for)
  /\ pool_pc' = "HttpError"
  /\ UNCHANGED <<calls, max_workers, wait_for, yielded, status_all, pool_ret>>
  /\ UNCHANGED <<pollVars, invVars, bqVars, dateVars, reportVars, batchVars, etlVars>>

InitPool ==
  /\ pool_pc = "submitting"
  /\ calls \in 0..MaxCalls
  /\ max_workers \in _MAX_WORKERS..MaxWidth
  /\ wait_for = <<>> /\ yielded = {} /\ status_all = <<>> /\ pool_ret = <<>>
  /\ PollIdle /\ InvIdle /\ BqIdle /\ DateIdle /\ ReportIdle /\ BatchIdle /\ EtlIdle

NextPool == Submit \/ WorkerStart \/ WorkerFinish \/ Collect \/ Return \/ Reraise

SpecPool == InitPool /\ [][NextPool]_vars

\* ------------------------------------------------------------------------
\* main._process_invoices_drive and main._process_invoices_sharepoint: the two
\* functions differ in the handler they call and in the names of their
\* parameters.  A file is the number of its place in invoice_files.

\* At most this many rows are in drive_data (sharepoint_data).
NumFolders == 2

\* At most this many files are in a folder.
MaxFiles == 2

\* The errors of invoice_handler.read that the loop catches.
CaughtErrors == {"ProductNotFoundError", "IncorrectProductError", "KeyError",
                 "IndexError"}

\* What invoice_handler.read does with a file: the values read_pc ends with.
ReadOutcomes == {"returned", "TypeError"} \cup CaughtErrors

\* header, entries = invoice_handler.read(f): a file that parses has one header
\* and this many entries.
EntryCounts == {0, 1}

HeaderOf(f) == [file |-> f]

EntriesOf(f, n) == [i \in 1..n |-> [file |-> f, entry |-> i]]

\* What upload_to_bq does: the values bq_pc ends with; without data it returns
\* before it calls BigQuery.
UploadOutcomes(data) ==
  IF data = <<>> THEN {"returned"} ELSE {"returned", "NotFound", "BadRequest"}

\* A call that raises ends the function.
AfterCall_mut(outcome, next) == next

AfterCall(outcome, next) == IF outcome = "returned" THEN next ELSE outcome

\* FLAGS.ignore_invoice_errors or len(error_invoices) == 0
CleanupAllowed_mut(flag, errors) == flag /\ Len(errors) = 0

CleanupAllowed(flag, errors) == flag \/ Len(errors) = 0

\* for row in drive_data: the next row, up to invoice_files and the three lists
NextFolder ==
  /\ batch_pc = "rows"
  /\ IF folder < drive_data
       THEN /\ folder' = folder + 1
            /\ invoice_files' \in 0..MaxFiles
            /\ batch_pc' = "files"
            /\ outcomes' = <<>> /\ all_headers' = <<>> /\ all_entries' = <<>>
            /\ error_invoices' = <<>> /\ uploads' = <<>>
            /\ deleted' = FALSE /\ marked' = FALSE /\ logged' = <<>>
       ELSE /\ batch_pc' = "returned"
            /\ UNCHANGED <<folder, invoice_files, outcomes, all_headers,
                           all_entries, error_invoices, uploads, deleted, marked,
                           logged>>
  /\ UNCHANGED <<invoice_storage, ignore_invoice_errors, delete_downloaded_files,
                 mark_files_completed, drive_data>>
  /\ UNCHANGED <<pollVars, invVars, bqVars, dateVars, reportVars, poolVars, etlVars>>

\* for f in invoice_files: one iteration
ReadFile ==
  /\ batch_pc = "files"
  /\ Len(outcomes) < invoice_files
  /\ LET f == Len(outcomes) + 1 IN
     \E outcome \in ReadOutcomes, n \in EntryCounts :
       /\ outcomes' = Append(outcomes, outcome)
       /\ IF outcome = "returned"
            THEN /\ all_headers' = Append(all_headers, HeaderOf(f))
                 /\ all_entries' = all_entries \o EntriesOf(f, n)
                 /\ UNCHANGED <<error_invoices, batch_pc>>
            ELSE /\ n = 0
                 /\ IF outcome \in CaughtErrors
                      THEN /\ error_invoices' = Append(error_invoices, f)
                           /\ UNCHANGED batch_pc
                      ELSE /\ batch_pc' = outcome
                           /\ UNCHANGED error_invoices
                 /\ UNCHANGED <<all_headers, all_entries>>
  /\ UNCHANGED <<invoice_storage, ignore_invoice_errors, delete_downloaded_files,
                 mark_files_completed, drive_data, folder, invoice_files, uploads,
                 deleted, marked, logged>>
  /\ UNCHANGED <<pollVars, invVars, bqVars, dateVars, reportVars, poolVars, etlVars>>

\* bq_handler.upload_to_bq(all_headers, table_invoices), at the end of the loop
UploadHeaders ==
  /\ batch_pc = "files"
  /\ Len(outcomes) = invoice_files
  /\ \E outcome \in UploadOutcomes(all_headers) :
       /\ uploads' = Append(uploads, outcome)
       /\ batch_pc' = AfterCall(outcome, "entries")
  /\ UNCHANGED <<invoice_storage, ignore_invoice_errors, delete_downloaded_files,
                 mark_files_completed, drive_data, folder, invoice_files, outcomes,
                 all_headers, all_entries, error_invoices, deleted, marked, logged>>
  /\ UNCHANGED <<pollVars, invVars, bqVars, dateVars, reportVars, poolVars, etlVars>>

\* bq_handler.upload_to_bq(all_entries, table_invoice_entries)
UploadEntries ==
  /\ batch_pc = "entries"
  /\ \E outcome \in UploadOutcomes(all_entries) :
       /\ uploads' = Append(uploads, outcome)
       /\ batch_pc' = AfterCall(outcome, "cleanup")
  /\ UNCHANGED <<invoice_storage, ignore_invoice_errors, delete_downloaded_files,
                 mark_files_completed, drive_data, folder, invoice_files, outcomes,
                 all_headers, all_entries, error_invoices, deleted, marked, logged>>
  /\ UNCHANGED <<pollVars, invVars, bqVars, dateVars, reportVars, poolVars, etlVars>>

\* The if statement that ends the body of the loop.
Cleanup ==
  /\ batch_pc = "cleanup"
  /\ IF CleanupAllowed(ignore_invoice_errors, error_invoices)
       THEN /\ deleted' = delete_downloaded_files
            /\ marked' = mark_files_completed
            /\ UNCHANGED logged
       ELSE /\ logged' = error_invoices
            /\ UNCHANGED <<deleted, marked>>
  /\ batch_pc' = "rows"
  /\ UNCHANGED <<invoice_storage, ignore_invoice_errors, delete_downloaded_files,
                 mark_files_completed, drive_data, folder, invoice_files, outcomes,
                 all_headers, all_entries, error_invoices, uploads>>
  /\ UNCHANGED <<pollVars, invVars, bqVars, dateVars, reportVars, poolVars, etlVars>>

InitBatch ==
  /\ batch_pc = "rows"
  /\ invoice_storage \in {"drive", "sharepoint"}
  /\ ignore_invoice_errors \in BOOLEAN
  /\ delete_downloaded_files \in BOOLEAN
  /\ mark_files_completed \in BOOLEAN
  /\ drive_data \in 0..NumFolders
  /\ folder = 0 /\ invoice_files = 0 /\ outcomes = <<>>
  /\ all_headers = <<>> /\ all_entries = <<>> /\ error_invoices = <<>>
  /\ uploads = <<>> /\ deleted = FALSE /\ marked = FALSE /\ logged = <<>>
  /\ PollIdle /\ InvIdle /\ BqIdle /\ DateIdle /\ ReportIdle /\ PoolIdle /\ EtlIdle

NextBatch == NextFolder \/ ReadFile \/ UploadHeaders \/ UploadEntries \/ Cleanup

SpecBatch == InitBatch /\ [][NextBatch]_vars

\* ------------------------------------------------------------------------
\* main.process_cm and main.process_dv360.  A row of data is the number of the
\* account or sheet it comes from and its number in the report.

\* At most this many accounts (cm) or sheets (dv360) are processed.
NumUnits == 3

\* Every report has at most this many rows.
MaxReportRows == 1

\* What cm_handler.run_report_and_wait does: the values pc and report_pc end with.
RunReportOutcomes == {"returned", "ReportRunError", "ReportRunDeadlineExceeded",
                      "UnboundLocalError", "IndexError"}

\* What dv360_handler.create_timezone_report does: the values pc ends with.
TimezoneOutcomes == {"returned", "ReportError", "NameError"}

\* What dv360_handler.create_reports does: the values pool_pc ends with.
CreateOutcomes == {"returned", "HttpError"}

\* What dv360_handler.wait_for_reports_to_complete does: it returns, or polls
\* for ever.
WaitOutcomes == {"returned", "polling"}

\* The first call of a sequence of calls that does not return decides.
FirstFailure(results) ==
  IF \A i \in 1..Len(results) : results[i] = "returned" THEN "returned"
  ELSE results[CHOOSE i \in 1..Len(results) :
                   /\ results[i] # "returned"
                   /\ \A j \in 1..(i - 1) : results[j] = "returned"]

RowsOf(u, n) == [i \in 1..n |-> [unit |-> u, row |-> i]]

\* process_cm: for account in accounts, one iteration
CmAccount ==
  /\ workflow = "cm" /\ etl_pc = "accounts"
  /\ unit < units
  /\ \E outcome \in RunReportOutcomes, n \in 0..MaxReportRows :
       /\ unit' = unit + 1
       /\ waits' = Append(waits, outcome)
       /\ etl_pc' = AfterCall(outcome, "accounts")
       /\ IF outcome = "returned"
            THEN all_data' = all_data \o RowsOf(unit', n)
            ELSE n = 0 /\ UNCHANGED all_data
  /\ UNCHANGED <<workflow, units, uploaded>>
  /\ UNCHANGED <<pollVars, invVars, bqVars, dateVars, reportVars, poolVars,
                 batchVars>>

\* process_cm: bq_handler.upload_to_bq(all_data, table_id, current_time)
CmUpload ==
  /\ workflow = "cm" /\ etl_pc = "accounts"
  /\ unit = units
  /\ \E outcome \in UploadOutcomes(all_data) :
       /\ etl_pc' = AfterCall(outcome, "returned")
       /\ uploaded' = IF outcome = "returned" THEN uploaded \o all_data ELSE uploaded
  /\ UNCHANGED <<workflow, units, unit, waits, all_data>>
  /\ UNCHANGED <<pollVars, invVars, bqVars, dateVars, reportVars, poolVars,
                 batchVars>>

\* process_dv360: for sheet in config.params['sheets'], from its first line to
\* wait_for_reports_to_complete; the loop ends when no sheet is left.
DvSheet ==
  /\ workflow = "dv360" /\ etl_pc = "sheets"
  /\ IF unit < units
       THEN \E tz \in TimezoneOutcomes, cr \in CreateOutcomes, wt \in WaitOutcomes :
              LET outcome == FirstFailure(<<tz, cr, wt>>) IN
              /\ (tz # "returned") => (cr = "returned" /\ wt = "returned")
              /\ (cr # "returned") => (wt = "returned")
              /\ unit' = unit + 1
              /\ waits' = Append(waits, outcome)
              /\ etl_pc' = AfterCall(outcome, "reports")
       ELSE /\ etl_pc' = "returned"
            /\ UNCHANGED <<unit, waits>>
  /\ all_data' = <<>>
  /\ UNCHANGED <<workflow, units, uploaded>>
  /\ UNCHANGED <<pollVars, invVars, bqVars, dateVars, reportVars, poolVars,
                 batchVars>>

\* process_dv360: the reports of the sheet are fetched and uploaded.
DvUpload ==
  /\ workflow = "dv360" /\ etl_pc = "reports"
  /\ \E n \in 0..MaxReportRows :
       LET data == RowsOf(unit, n) IN
       \E outcome \in UploadOutcomes(data) :
         /\ all_data' = data
         /\ etl_pc' = AfterCall(outcome, "sheets")
         /\ uploaded' = IF outcome = "returned" THEN uploaded \o data ELSE uploaded
  /\ UNCHANGED <<workflow, units, unit, waits>>
  /\ UNCHANGED <<pollVars, invVars, bqVars, dateVars, reportVars, poolVars,
                 batchVars>>

InitEtl ==
  /\ workflow \in {"cm", "dv360"}
  /\ etl_pc = IF workflow = "cm" THEN "accounts" ELSE "sheets"
  /\ units \in 0..NumUnits
  /\ unit = 0 /\ waits = <<>> /\ all_data = <<>> /\ uploaded = <<>>
  /\ PollIdle /\ InvIdle /\ BqIdle /\ DateIdle /\ ReportIdle /\ PoolIdle /\ BatchIdle

NextEtl == CmAccount \/ CmUpload \/ DvSheet \/ DvUpload

SpecEtl == InitEtl /\ [][NextEtl]_vars

\* ------------------------------------------------------------------------
\* Properties of the waits.

\* The last tick saw a job that failed.
ObservedFailed ==
  /\ statuses # <<>>
  /\ IF wait = "cm"
       THEN statuses[1] \notin {"PROCESSING", "REPORT_AVAILABLE"}
       ELSE \E i \in 1..Len(statuses) : statuses[i].status = "Failed"

\* The last tick saw a job that is still running.
ObservedRunning ==
  /\ statuses # <<>>
  /\ IF wait = "cm"
       THEN statuses[1] = "PROCESSING"
       ELSE \E i \in 1..Len(statuses) : statuses[i].status = "Running"

\* C1: as soon as one polled job is observed Failed, the wait aborts with the
\* job-failed error, in all three waits.
C1_FailedAborts ==
  (wait \in {"cm", "dv360", "timezone"} /\ ObservedFailed)
    => pc \in {"ReportRunError", "ReportError"}

\* C2: once more than MAX_RETRY_ELAPSED_TIME has elapsed at a tick that sees a
\* job still running (and none failed), the wait raises the deadline-exceeded
\* error at that tick, in run_report_and_wait and wait_for_reports_to_complete.
C2_DeadlineRaised ==
  (/\ wait \in {"cm", "dv360"}
   /\ ObservedRunning /\ ~ObservedFailed
   /\ elapsed > MAX_RETRY_ELAPSED_TIME)
    => pc = "ReportRunDeadlineExceeded"

\* The response of the service to the last status request for query q says
\* completed: not running, and a locator is present.
AnsweredCompleted(q) == (~svc[q].running) /\ svc[q].url # None

\* C3: the wait returns success only at a tick in which every job's status
\* request answered Completed.
C3_ReturnOnlyAllCompleted ==
  pc = "returned" =>
    IF wait = "cm"
      THEN statuses = <<"REPORT_AVAILABLE">>
      ELSE \A i \in 1..Len(query_ids) : AnsweredCompleted(query_ids[i])

C3_Witness ==
  /\ wait = "dv360" /\ pc = "returned" /\ Len(query_ids) >= 2
  /\ elapsed > 0

C5_BackoffStep ==
  [][wait = "backoff" =>
       IF sleep = 0
         THEN sleep' = MIN_RETRY_INTERVAL
         ELSE /\ sleep <= sleep'
              /\ sleep' <= Min2(3 * sleep, MAX_RETRY_INTERVAL)]_vars

C5_Witness == wait = "backoff" /\ sleep = MAX_RETRY_INTERVAL

\* ------------------------------------------------------------------------
\* Properties of invoice_handler.read.

\* The number of the first blank row of ls (Len(ls) + 1 if there is none).
FirstBlank(ls) ==
  IF \E i \in 1..Len(ls) : ls[i] = <<>>
    THEN CHOOSE i \in 1..Len(ls) : ls[i] = <<>> /\ \A j \in 1..(i - 1) : ls[j] # <<>>
    ELSE Len(ls) + 1

\* A header row: a key and a value.
IsKeyValueRow(r) == Len(r) >= 2

\* A product row as the invoices have it: Product,<name of the product>.
IsProductDeclaration(r) == Len(r) = 2 /\ r[1] = s_Product

\* A row of the entries section: its first column is not empty.
IsEntryRow(r) == r # <<>> /\ r[1] # <<>>

\* A row of the tax section: its first column is empty, it has the columns a tax
\* row has, and a GST column gives its percentage in parentheses.
IsTaxRow(r) ==
  /\ Len(r) >= 4 /\ r[1] = <<>>
  /\ \A c \in {3, 4} : Contains(s_gst, Lower(r[c])) => ReSearch(r[c]).match

\* ls is the beginning of a well-formed invoice: header rows, a blank row, the
\* product row, a blank row, the row of column names and the data rows, tax rows.
WellFormedSoFar(ls) ==
  LET b == FirstBlank(ls) IN
  /\ \A i \in 1..Len(ls) :
       IF i < b THEN IsKeyValueRow(ls[i])
       ELSE IF i = b THEN TRUE
       ELSE IF i = b + 1 THEN IsProductDeclaration(ls[i]) /\ ls[i][2] \in SUPPORTED_PRODUCTS
       ELSE IF i = b + 2 THEN ls[i] = <<>>
       ELSE IF i = b + 3 THEN IsEntryRow(ls[i])
       ELSE \/ IsEntryRow(ls[i]) /\ \A j \in (b + 4)..(i - 1) : IsEntryRow(ls[j])
            \/ IsTaxRow(ls[i])

\* The numbers of the data rows of a well-formed invoice, in input order.
DataRows(ls) ==
  SelectSeq([i \in 1..Len(ls) |-> i],
            LAMBDA i : i > FirstBlank(ls) + 3 /\ IsEntryRow(ls[i]))

\* The keys under which a header row carries the number of the invoice.
IsNumberKey(k) ==
  k \in {s_Invoice_number, s_Credit_memo_number, s_Debit_memo_number}

WellFormed(ls) ==
  /\ WellFormedSoFar(ls)
  /\ FirstBlank(ls) > 1
  /\ Len(ls) >= FirstBlank(ls) + 3
  /\ \E i \in 1..(FirstBlank(ls) - 1) : IsNumberKey(Remove(ls[i][1], BOM))

\* d[k] = v, for a dict d
Has(d, k, v) == k \in Keys(d) /\ Get(d, k) = v

\* C6: read of a well-formed invoice with N data rows returns exactly N entries,
\* in input order, each with the invoice number of the header under 'Invoice number'
\* (and no row of a well-formed invoice makes read raise).
C6_WellFormedYieldsNEntries ==
  /\ (read_pc # "idle" /\ ~eof /\ WellFormedSoFar(lines)) => read_pc = "reading"
  /\ (eof /\ WellFormed(lines)) =>
       LET data == DataRows(lines)
           names == lines[FirstBlank(lines) + 3]
       IN /\ read_pc = "returned"
          /\ Len(invoice_entries_dict) = Len(data)
          /\ \A i \in 1..Len(data) :
               \* the i-th entry is of the i-th data row: its last zipped cell
               /\ LET n == Min2(Len(names), Len(lines[data[i]]))
                  IN Has(invoice_entries_dict[i], names[n], Strip(lines[data[i]][n]))
               /\ \E j \in 1..(FirstBlank(lines) - 1) :
                    /\ IsNumberKey(Remove(lines[j][1], BOM))
                    /\ Has(invoice_entries_dict[i], s_Invoice_number, lines[j][2])
               /\ \A k \in 1..Len(data) :
                    Has(invoice_entries_dict[i], s_Invoice_number,
                        Get(invoice_entries_dict[k], s_Invoice_number))

C6_Witness ==
  /\ eof /\ WellFormed(lines) /\ read_pc = "returned"
  /\ Len(DataRows(lines)) = 2
  /\ lines[DataRows(lines)[1]] # lines[DataRows(lines)[2]]
  /\ IsTaxRow(lines[Len(lines)])

\* C7: if the row after the blank row that ends the header section is not a
\* product row (first cell not 'product', row absent or malformed), read fails
\* with ProductNotFoundError.
C7_NoProductRowFails ==
  LET b == FirstBlank(lines)
      IsProductRowShaped(r) == Len(r) >= 2 /\ Lower(r[1]) = s_product
  IN /\ (Len(lines) > b /\ ~IsProductRowShaped(lines[b + 1]))
          => read_pc = "ProductNotFoundError"
     /\ (eof /\ Len(lines) = b) => read_pc = "ProductNotFoundError"

C9_ReturnedHeaderKeys ==
  read_pc = "returned" =>
    /\ s_Product \in Keys(invoice_header)
    /\ Get(invoice_header, s_Product) \in
         {s_Display_and_Video_360, s_Campaign_Manager, s_DoubleClick_Campaign_Manager}
    /\ \E k \in Keys(invoice_header) : IsNumberKey(k)

\* C10: the number that tags the entries is the header's 'Invoice number', else
\* its 'Credit memo number', else its 'Debit memo number'; with none of these
\* keys read fails with KeyError.
C10_NumberPriority ==
  eof =>
    LET expected ==
          IF s_Invoice_number \in Keys(invoice_header)
            THEN Get(invoice_header, s_Invoice_number)
          ELSE IF s_Credit_memo_number \in Keys(invoice_header)
            THEN Get(invoice_header, s_Credit_memo_number)
          ELSE Get(invoice_header, s_Debit_memo_number)
    IN IF \E k \in Keys(invoice_header) : IsNumberKey(k)
         THEN /\ read_pc \in {"returned", "IndexError"}
              /\ invoice_number = expected
              /\ read_pc = "returned" =>
                   \A i \in 1..Len(invoice_entries_dict) :
                     Has(invoice_entries_dict[i], s_Invoice_number, expected)
         ELSE read_pc = "KeyError"

C10_Witness ==
  /\ eof /\ read_pc = "returned"
  /\ s_Invoice_number \notin Keys(invoice_header)
  /\ s_Credit_memo_number \in Keys(invoice_header)
  /\ s_Debit_memo_number \in Keys(invoice_header)
  /\ Len(invoice_entries_dict) >= 1

\* ------------------------------------------------------------------------
\* Properties of the tax section.

\* The row read last.
LastRow == lines[Len(lines)]

\* The row read last was read in (or took read into) state READ_GST.
LastRowInTaxState == lines # <<>> /\ state = READ_GST

\* Column c of row r contains 'gst', whatever the case (a column the row does not
\* have contains nothing).
GstIn(r, c) == Len(r) >= c /\ Contains(s_gst, Lower(r[c]))

\* The column of r that names the tax: column 2, or failing that column 3 (columns
\* 3 and 4, counted from 1).
GstColumn(r) == IF GstIn(r, 3) THEN 3 ELSE 4

\* g is what the parentheses of s enclose: from after the first "(" to before the
\* last ")".
IsParenthesized(s, g) ==
  \E i \in 1..Len(s) :
    /\ s[i] = "("
    /\ \A k \in 1..(i - 1) : s[k] # "("
    /\ \E j \in (i + 1)..Len(s) :
         /\ s[j] = ")"
         /\ \A k \in (j + 1)..Len(s) : s[k] # ")"
         /\ g = SubSeq(s, i + 1, j - 1)

\* s has a "(" and, after it, a ")".
HasParentheses(s) ==
  \E i \in 1..Len(s) : s[i] = "(" /\ \E j \in (i + 1)..Len(s) : s[j] = ")"

\* A tax row that names the tax and gives its percentage in parentheses.
IsGstRow(r) ==
  /\ Len(r) >= 3 /\ r[1] = <<>>
  /\ GstIn(r, 3) \/ GstIn(r, 4)
  /\ HasParentheses(r[GstColumn(r)])

\* The header has gst_pct = pct and gst_val = val.
GainedGst(pct, val) ==
  /\ Has(invoice_header, s_gst_pct, pct)
  /\ Has(invoice_header, s_gst_val, val)

\* The header has, from tax row r, gst_pct = what the parentheses of its tax
\* column enclose and gst_val = its last column.
GainedGstOf(r) ==
  /\ s_gst_pct \in Keys(invoice_header)
  /\ IsParenthesized(r[GstColumn(r)], Get(invoice_header, s_gst_pct))
  /\ Has(invoice_header, s_gst_val, r[Len(r)])

\* C11 (as claimed): a tax row with empty column 0 whose column 2 (or, failing
\* that, column 3) contains 'gst' gives the header gst_pct = the percentage in the
\* parentheses of that column and gst_val = the last column; for the row
\* ['', '', 'GST (15%)', '', '42.00'] that is gst_pct = '15', gst_val = '42.00'.
C11_GstExtraction ==
  LastRowInTaxState =>
    LET r == LastRow IN
    IsGstRow(r) =>
      /\ GainedGstOf(r)
      /\ r = GstRow => GainedGst(<<"1", "5">>, <<"4", "2", ".", "0", "0">>)

\* C11 (amended): gst_pct is the whole text the parentheses of that column
\* enclose, the percent sign included, and gst_val the last column; for the row
\* ['', '', 'GST (15%)', '', '42.00'] that is gst_pct = '15%', gst_val = '42.00'.
C11_GstExtractionCaptured ==
  LastRowInTaxState =>
    LET r == LastRow IN
    IsGstRow(r) =>
      /\ GainedGstOf(r)
      /\ r = GstRow => GainedGst(<<"1", "5", "%">>, <<"4", "2", ".", "0", "0">>)

C11_Witness ==
  /\ LastRowInTaxState /\ Len(lines) > gst_from /\ gst_from > FirstBlank(lines)
  /\ FirstBlank(lines) > 1
  /\ lines[Len(lines) - 1] = GstRow /\ LastRow = Gst3Row
  /\ GainedGst(<<"1", "0", "%">>, <<"5", ".", "0", "0">>)

\* C12: a blank row after the entries section has started is tolerated: after
\* data rows (before the tax row) and after tax rows, read goes on.
C12_BlankAfterEntriesTolerated ==
  (/\ ~eof /\ lines # <<>> /\ LastRow = <<>>
   /\ FirstBlank(lines) > 1
   /\ Len(lines) > FirstBlank(lines) + 3
   /\ WellFormedSoFar(Front(lines)))
    => read_pc = "reading"

\* ------------------------------------------------------------------------
\* Properties of the entries.

\* An entry record without the tag read_entries adds.
WithoutTag(d) == SelectSeq(d, LAMBDA kv : kv[1] # s_Invoice_number)

\* The values of a record in key order.
ValuesOf(d) == [i \in 1..Len(d) |-> d[i][2]]

\* The cells of a row, each trimmed.
Trimmed(row) == [c \in 1..Len(row) |-> Strip(row[c])]

\* The row has a column name of its own for each of its cells: it is no longer
\* than the row of column names, the names of its columns differ from each
\* other, and none is the key of the tag.
HasOwnColumns(names, row) ==
  /\ Len(row) <= Len(names)
  /\ \A i, j \in 1..Len(row) : names[i] = names[j] => i = j
  /\ \A i \in 1..Len(row) : names[i] # s_Invoice_number

\* C13 (as claimed): the values of the record of every data row, in key order and
\* without the tag, are the cells of the row, trimmed, in column order.
C13_RoundTrip ==
  read_pc = "returned" =>
    \A i \in 1..Len(invoice_entries_dict) :
      ValuesOf(WithoutTag(invoice_entries_dict[i])) = Trimmed(invoice_entries[i + 1])

\* C13 (amended): that holds of every data row that has a column name of its own
\* for each of its cells, and the keys of its record are those names in column
\* order.
C13_RoundTripOwnColumns ==
  read_pc = "returned" =>
    /\ Len(invoice_entries_dict) = Len(invoice_entries) - 1
    /\ \A i \in 1..Len(invoice_entries_dict) :
         LET names == invoice_entries[1]
             row == invoice_entries[i + 1]
         IN HasOwnColumns(names, row) =>
              /\ ValuesOf(WithoutTag(invoice_entries_dict[i])) = Trimmed(row)
              /\ KeysOf(WithoutTag(invoice_entries_dict[i])) = SubSeq(names, 1, Len(row))

C13_Witness ==
  /\ read_pc = "returned" /\ Len(invoice_entries) = 3
  /\ invoice_entries[1] = RepeatedColumnsRow
  /\ invoice_entries[2] = WidgetRow
  /\ invoice_entries[3] = LongRow
  /\ HasOwnColumns(invoice_entries[1], invoice_entries[2])
  /\ ~HasOwnColumns(invoice_entries[1], invoice_entries[3])

\* ------------------------------------------------------------------------
\* Properties of the state of read.

\* C17: the state moves only forward, one state at a time, along READ_HEADER,
\* READ_PRODUCT, READ_ENTRIES, READ_GST, and never leaves READ_GST.
C17_StateMovesForward ==
  [][/\ state' = state \/ state' = state + 1
     /\ state \in {READ_HEADER, READ_PRODUCT, READ_ENTRIES, READ_GST}
     /\ state' \in {READ_HEADER, READ_PRODUCT, READ_ENTRIES, READ_GST}
     /\ state = READ_GST => state' = READ_GST]_vars

C17_Witness ==
  /\ read_pc = "returned" /\ state = READ_GST
  /\ gst_from > FirstBlank(lines) + 2 /\ Len(lines) > gst_from

\* C18: a two-cell product row whose first cell is 'product' in any case is
\* handled like 'Product': accepted when its value is in the allow-list,
\* IncorrectProductError otherwise, and no other error.
C18_ProductAnyCase ==
  LET b == FirstBlank(lines) IN
  (/\ ~eof /\ Len(lines) = b + 1
   /\ Len(LastRow) = 2 /\ Lower(LastRow[1]) = s_product)
    => read_pc = IF LastRow[2] \in {s_Display_and_Video_360, s_Campaign_Manager,
                                    s_DoubleClick_Campaign_Manager}
                   THEN "reading" ELSE "IncorrectProductError"

\* C19: a row read in the tax state in which neither column 2 nor column 3
\* contains 'gst' adds nothing to the header and raises nothing, however many
\* columns it has.
C19_NoGstNoError ==
  [][(/\ read_pc = "reading" /\ lines' # lines
      /\ state' = READ_GST
      /\ lines'[Len(lines')] # <<>>
      /\ ~GstIn(lines'[Len(lines')], 3) /\ ~GstIn(lines'[Len(lines')], 4))
       => /\ read_pc' = "reading"
          /\ invoice_header' = invoice_header]_vars

\* An invoice without entries section: header rows, a blank row, the product row,
\* a blank row, and tax rows.
WellFormedWithoutEntries(ls) ==
  LET b == FirstBlank(ls) IN
  /\ b > 1 /\ Len(ls) >= b + 3
  /\ \A i \in 1..(b - 1) : IsKeyValueRow(ls[i])
  /\ \E i \in 1..(b - 1) : IsNumberKey(Remove(ls[i][1], BOM))
  /\ IsProductDeclaration(ls[b + 1]) /\ ls[b + 1][2] \in SUPPORTED_PRODUCTS
  /\ ls[b + 2] = <<>>
  /\ \A i \in (b + 3)..Len(ls) : IsTaxRow(ls[i])

\* C20: an invoice whose entries section is completely empty parses, and yields
\* no entry.
C20_EmptyEntriesSection ==
  (eof /\ WellFormedWithoutEntries(lines)) =>
    /\ read_pc = "returned"
    /\ invoice_entries_dict = <<>>

\* ------------------------------------------------------------------------
\* Properties of _get_report_status.

\* The query whose status is statuses[i].
QueryOf(i) == IF wait = "dv360" THEN order[i] ELSE 1

\* C16: the status built from a response follows its two signals: not running
\* and a locator -> Completed, with that locator; not running and no locator ->
\* Failed; running, with or without a locator -> Running.
C16_Classification ==
  wait \in {"dv360", "timezone"} =>
    \A i \in 1..Len(statuses) :
      LET response == svc[QueryOf(i)] IN
      /\ ((~response.running) /\ response.url # None) =>
           /\ statuses[i].status = "Completed"
           /\ statuses[i].url = response.url
      /\ ((~response.running) /\ response.url = None) => statuses[i].status = "Failed"
      /\ response.running => statuses[i].status = "Running"

C16_Witness ==
  /\ wait = "dv360" /\ Len(statuses) = 2
  /\ \E i \in 1..2 : svc[order[i]].running /\ svc[order[i]].url # None
  /\ \E i \in 1..2 : (~svc[order[i]].running) /\ svc[order[i]].url = None

\* ------------------------------------------------------------------------
\* Properties of upload_to_bq.

\* C14: after a successful upload of rows, the schema of the load has a STRING
\* column, under the fixed name, for every key of every row, and the table has
\* every value of every row.
C14_EveryKeyHasColumn ==
  (bq_pc = "returned" /\ table_data # <<>>) =>
    \A i \in 1..Len(table_data) : \A k \in Keys(table_data[i]) :
      /\ \E j \in 1..Len(schema) :
           schema[j] = SchemaField(_remove_special_chars(k), "STRING")
      /\ Has(table.rows[Len(table.rows) - Len(table_data) + i],
             _remove_special_chars(k), Get(table_data[i], k))

\* ------------------------------------------------------------------------
\* Properties of _get_valid_start_date.

\* The first day of the month before the month of t.
FirstOfPreviousMonth(t) ==
  IF t.month = 1 THEN [year |-> t.year - 1, month |-> 12, day |-> 1]
  ELSE [year |-> t.year, month |-> t.month - 1, day |-> 1]

\* C15: without month or year the start date is the first day of the month
\* before the current one (1 December of the year before, in January); with both
\* it is the first day of that month.
C15_StartDate ==
  date_pc \notin {"idle", "called"} =>
    /\ date_pc = "returned"
    /\ start_date = IF month = 0 \/ year = 0
                      THEN FirstOfPreviousMonth(cur_time)
                      ELSE [year |-> year, month |-> month, day |-> 1]

\* ------------------------------------------------------------------------
\* Properties of the errors of read.

\* C21: read returns or fails with one of the declared kinds of error
\* (ProductNotFoundError, IncorrectProductError, KeyError, IndexError), whatever
\* the rows of the file.
C21_OnlyDeclaredErrors ==
  read_pc \in {"idle", "reading", "returned", "ProductNotFoundError",
               "IncorrectProductError", "KeyError", "IndexError"}

\* ------------------------------------------------------------------------
\* Properties of the sleeps of the waits.

\* C24: a wait that is going to poll again has slept at least MIN_RETRY_INTERVAL
\* since its last round of status queries, in run_report_and_wait and in
\* wait_for_reports_to_complete.
C24_SleepsBetweenTicks ==
  (wait \in {"cm", "dv360"} /\ pc = "polling" /\ statuses # <<>>)
    => slept >= MIN_RETRY_INTERVAL

\* ------------------------------------------------------------------------
\* Properties of the entries buffer.

\* The number of the row after the second blank row of ls: the first row of the
\* entries section (Len(ls) + 1 if ls has no such row).
EntriesStart(ls) ==
  LET blanks == {i \in 1..Len(ls) : ls[i] = <<>>}
  IN IF Cardinality(blanks) < 2 THEN Len(ls) + 1
     ELSE 1 + CHOOSE i \in blanks : Cardinality({j \in blanks : j < i}) = 1

\* The number of the first row of ls, from row e on, whose first column is empty
\* (Len(ls) + 1 if there is none).
FirstTaxRow(ls, e) ==
  LET empties == {i \in e..Len(ls) : ls[i] # <<>> /\ ls[i][1] = <<>>}
  IN IF empties = {} THEN Len(ls) + 1
     ELSE CHOOSE i \in empties : \A j \in empties : i <= j

\* C29: in state READ_GST no row changes the entries buffer, and the entries
\* returned are the rows between the row of column names and the first row whose
\* first column is empty.
C29_EntriesFrozenInTaxState ==
  [][/\ state = READ_GST => invoice_entries' = invoice_entries
     /\ read_pc' = "returned" =>
          LET e == EntriesStart(lines')
              t == FirstTaxRow(lines', e)
          IN /\ invoice_entries' = SubSeq(lines', e, t - 1)
             /\ Len(invoice_entries_dict') = t - e - 1]_vars

C29_Witness ==
  /\ read_pc = "returned" /\ state = READ_GST
  /\ Len(lines) > gst_from /\ LastRow = WidgetRow
  /\ Len(invoice_entries_dict) = 1

\* ------------------------------------------------------------------------
\* Termination of run_report_and_wait.

CmExits == {"returned", "ReportRunError", "ReportRunDeadlineExceeded"}

\* C30: the loop of run_report_and_wait ends with success, ReportRunError or
\* ReportRunDeadlineExceeded; every iteration that goes on takes at least
\* MIN_RETRY_INTERVAL, a PROCESSING seen more than MAX_RETRY_ELAPSED_TIME after
\* the start raises, so an iteration never starts later than
\* MAX_RETRY_ELAPSED_TIME + MAX_RETRY_INTERVAL after the start, and nothing
\* follows an exit.
C30_LoopTerminates ==
  /\ [](wait = "cm" => (pc = "polling" \/ pc \in CmExits))
  /\ []((wait = "cm" /\ pc = "polling") =>
          now - start_time <= MAX_RETRY_ELAPSED_TIME + MAX_RETRY_INTERVAL)
  /\ [][wait = "cm" =>
          /\ (pc = "polling" /\ pc' = "polling") =>
               (statuses' = <<"PROCESSING">> /\ now' >= now + MIN_RETRY_INTERVAL)
          /\ (statuses' = <<"PROCESSING">> /\ elapsed' > MAX_RETRY_ELAPSED_TIME) =>
               pc' = "ReportRunDeadlineExceeded"
          /\ pc \in CmExits => UNCHANGED <<pc, now, sleep, statuses, elapsed>>]_vars
  /\ (wait = "cm") ~> (pc \in CmExits)

C30_Witness ==
  /\ wait = "cm" /\ pc = "ReportRunDeadlineExceeded"
  /\ sleep = MAX_RETRY_INTERVAL
  /\ elapsed > MAX_RETRY_ELAPSED_TIME

\* ------------------------------------------------------------------------
\* Properties of the records of a report.

\* The cells of a record, in the order of its keys.
CellsOf(d) == [i \in 1..Len(d) |-> d[i][2]]

\* C26: with the first row whose first cell is 'Report Fields' at index i (from
\* 0) and a heading row and a last row after it, run_report_and_wait returns one
\* record for each row between row i+1 and the last row, in their order, keyed
\* by the cells of row i+1; the rows up to the marker play no part.
C26_RecordsOfDataRows ==
  (report_pc # "downloaded" /\ MarkerRows(report_data) # {}) =>
    LET i == CHOOSE i \in MarkerRows(report_data) :
               \A j \in MarkerRows(report_data) : i <= j
        k == Len(report_data) - (i + 3)
        heading == report_data[i + 2]
    IN k >= 0 =>
         /\ report_pc = "returned"
         /\ Len(report_data_objects) = k
         /\ \A r \in 1..k :
              LET row == report_data[i + 2 + r]
                  n == Min2(Len(heading), Len(row))
              IN /\ KeysOf(report_data_objects[r]) = SubSeq(heading, 1, n)
                 /\ CellsOf(report_data_objects[r]) = SubSeq(row, 1, n)

C26_Witness ==
  /\ report_pc = "returned"
  /\ report_data = <<PreambleRow, MarkerRow, HeadingRow, SiteRow, TotalRow>>
  /\ report_data_objects = << <<<<"Site", "a.com">>, <<"Clicks", "1">>>> >>

C26_WitnessNoDataRow ==
  /\ report_pc = "returned"
  /\ report_data = <<MarkerRow, HeadingRow, TotalRow>>
  /\ report_data_objects = <<>>

\* ------------------------------------------------------------------------
\* Properties of a batch of calls.

\* C25: the list of results is returned only when every call submitted has
\* returned, and it then holds one result for each call and nothing else,
\* whatever the width of the pool and the order in which the calls end; until
\* then nothing is returned, and an exception leaves the block only when every
\* call has ended.
C25_Barrier ==
  /\ pool_pc = "returned" =>
       /\ Len(wait_for) = calls
       /\ \A i \in 1..calls : wait_for[i] = "done"
       /\ Len(pool_ret) = calls
       /\ \A i \in 1..calls :
            Cardinality({j \in 1..Len(pool_ret) : pool_ret[j] = ResultOf(i)}) = 1
  /\ pool_pc # "returned" => pool_ret = <<>>
  /\ pool_pc \notin {"submitting", "collecting", "joining", "returned"} =>
       /\ Len(wait_for) = calls
       /\ \A i \in 1..calls : wait_for[i] \in {"done", "raised"}

C25_Witness ==
  /\ pool_pc = "returned" /\ calls = MaxCalls /\ max_workers = MaxWidth
  /\ pool_ret[1] = ResultOf(2)

\* ------------------------------------------------------------------------
\* Properties of the invoice batch driver.

\* The files of the row read so far that did not parse, and those that did.
FailedFiles == {f \in 1..Len(outcomes) : outcomes[f] # "returned"}

ParsedFiles == {f \in 1..Len(outcomes) : outcomes[f] = "returned"}

\* Both uploads of the row have returned.
RowUploaded == uploads = <<"returned", "returned">>

\* The if statement that ends the row has run.
RowDecided == batch_pc \in {"rows", "returned"} /\ folder >= 1

\* C22: no failure of invoice_handler.read ends the batch; every file that
\* fails is once in error_invoices and gives no header and no entry, every file
\* that parses gives its header once, and the uploads start only when every file
\* of the row has been read.
C22_ParseFailureNeverAborts ==
  /\ batch_pc \notin ReadOutcomes \ {"returned"}
  /\ {error_invoices[j] : j \in 1..Len(error_invoices)} = FailedFiles
  /\ Len(error_invoices) = Cardinality(FailedFiles)
  /\ {all_headers[j].file : j \in 1..Len(all_headers)} = ParsedFiles
  /\ Len(all_headers) = Cardinality(ParsedFiles)
  /\ \A j \in 1..Len(all_entries) : all_entries[j].file \in ParsedFiles
  /\ uploads # <<>> => Len(outcomes) = invoice_files

C23_WitnessIgnored ==
  /\ RowDecided /\ ignore_invoice_errors
  /\ delete_downloaded_files /\ ~mark_files_completed
  /\ outcomes = <<"IndexError", "returned">>
  /\ deleted /\ ~marked /\ logged = <<>>

\* C28: a cleanup action is done for a row only when both uploads of the row
\* have returned, the headers first; when read or an upload raises, no cleanup
\* action has been done for the row.
C28_CleanupAfterUploads ==
  /\ (deleted \/ marked) => (RowUploaded /\ RowDecided)
  /\ batch_pc \in {"files", "entries", "cleanup"} => (~deleted /\ ~marked)
  /\ batch_pc \in {"entries", "cleanup"} => uploads[1] = "returned"
  /\ batch_pc = "cleanup" => RowUploaded
  /\ batch_pc \notin {"rows", "files", "entries", "cleanup", "returned"} =>
       /\ ~deleted /\ ~marked
       /\ ~RowUploaded

C28_Witness ==
  /\ deleted /\ marked /\ RowUploaded
  /\ Len(all_headers) = 1 /\ Len(all_entries) = 1 /\ error_invoices = <<1>>

C28_WitnessUploadRaised ==
  /\ batch_pc = "BadRequest" /\ uploads = <<"returned", "BadRequest">>
  /\ delete_downloaded_files /\ mark_files_completed /\ ignore_invoice_errors
  /\ ~deleted /\ ~marked

\* ------------------------------------------------------------------------
\* Properties of process_cm and process_dv360.

\* C27: process_cm uploads rows only when the wait of every account has
\* returned, so a wait that raises leaves nothing uploaded; process_dv360
\* uploads the rows of a sheet only when the wait of that sheet has returned.
C27_NoPartialUpload ==
  /\ (workflow = "cm" /\ uploaded # <<>>) =>
       /\ Len(waits) = units
       /\ \A u \in 1..units : waits[u] = "returned"
  /\ (workflow = "cm" /\ \E u \in 1..Len(waits) : waits[u] # "returned") =>
       /\ uploaded = <<>>
       /\ etl_pc = waits[Len(waits)]
  /\ workflow = "dv360" =>
       \A j \in 1..Len(uploaded) :
         /\ uploaded[j].unit <= Len(waits)
         /\ waits[uploaded[j].unit] = "returned"

C27_Witness ==
  /\ workflow = "cm" /\ etl_pc = "ReportRunDeadlineExceeded"
  /\ waits = <<"returned", "ReportRunDeadlineExceeded">> /\ units = 3
  /\ all_data # <<>> /\ uploaded = <<>>

C27_WitnessSheets ==
  /\ workflow = "dv360" /\ etl_pc = "polling"
  /\ waits = <<"returned", "polling">>
  /\ Len(uploaded) = 1

====
